---- MODULE Spec2Model ----
(***************************************************************************)
(* train.py: the meta-optimisation training script.  One process of a run  *)
(* is modelled from the configuration overlay (line 94) to the teardown    *)
(* (line 417); the processes of a multi-process run share no state but the *)
(* files they write, so a run is the set of its processes' behaviours and  *)
(* RANK selects which process a behaviour is.                              *)
(*                                                                         *)
(* Collaborators outside the file (gdtuo, model, torch) are modelled by    *)
(* what train.py observes of them: a counter per call, and a free choice   *)
(* for every value they produce (losses, gradients).                       *)
(***************************************************************************)
EXTENDS Integers, Sequences, FiniteSets, TLC

VARIABLES
    pc,               \* position of the process in the script
    error,            \* the exception that ended the process, or "none"
    config,           \* the option globals after the overlay of line 95
    ckpt_file,        \* out_dir/ckpt.pt on disk
    master_process,   \* line 108 / 116
    model_built,      \* GPT(gptconf) has been constructed (line 175 / 188)
    model_args,       \* line 165
    iter_num,         \* line 152
    local_iter_num,   \* line 274
    best_val_loss,    \* line 153
    X,                \* the current batch (identified by the fetch that produced it)
    get_batch_calls,  \* number of get_batch calls so far
    lr,               \* line 296
    optimizer_lr,     \* optimizer.param_groups[*]['lr'], line 298
    alpha,            \* mw.optimizer.parameters['alpha'].data, line 300
    hyper_grad,       \* mw.optimizer.parameters[n].grad
    losses,           \* the global `losses` (unbound until first assigned)
    lossf,            \* the global `lossf` is bound
    eval_count,       \* number of estimate_loss calls
    ckpt_writes,      \* number of torch.save calls
    results_writes,   \* number of np.savetxt calls on a results file
    optimizer_steps,  \* number of optimizer.step() calls (the configure_optimizers object)
    mw_steps,         \* number of mw.step() calls
    hist              \* history: what the current iteration has done so far

vars == <<pc, error, config, ckpt_file, master_process, model_built, model_args,
          iter_num, local_iter_num, best_val_loss, X, get_batch_calls, lr,
          optimizer_lr, alpha, hyper_grad, losses, lossf, eval_count,
          ckpt_writes, results_writes, optimizer_steps, mw_steps, hist>>

(***************************************************************************)
(* Bounds of the model.                                                    *)
(***************************************************************************)
MaxIters == 2          \* largest max_iters tried
MaxInterval == 2       \* largest eval_interval / log_interval tried
MaxResumeIter == 2     \* largest iter_num found in a checkpoint on disk
MaxValLoss == 2        \* validation losses are drawn from 1..MaxValLoss
MaxGrad == 12          \* gradients produced by backward lie in -MaxGrad..MaxGrad
MaxSched == 3          \* warmup_iters and lr_decay_iters are drawn from 0..MaxSched
MaxStep == 5           \* the schedule is applied to steps 0..MaxStep

(***************************************************************************)
(* Program constants (defaults of lines 45-91).  Rates are in units of     *)
(* 1e-5, so that 6e-4 is 60 and 6e-5 is 6.                                 *)
(***************************************************************************)
n_layer == 12
n_head == 12
n_embd == 768
block_size == 1024
dropout == 0
learning_rate == 60
min_lr == 6
eval_iters == 200
gpt2_vocab_size == 50304
init_best_val_loss == 1000000000
ddp_world_size == 2
hyper_clip_norm == 10

HyperNames == {"beta1", "beta2", "beta3", "rho", "c", "gamma", "alpha"}

ZeroGrads == [n \in HyperNames |-> 0]

NoLosses == [bound |-> FALSE, train |-> "finite", val |-> 0]

TrainLosses == {"finite", "nan", "inf"}

ValLosses == 1..MaxValLoss

(***************************************************************************)
(* Exact rationals, for the schedule.                                      *)
(***************************************************************************)
Rat(n, d) == [num |-> n, den |-> d]

RatEq(a, b) == a.num * b.den = b.num * a.den

RatLe(a, b) == a.num * b.den <= b.num * a.den

(***************************************************************************)
(* math.cos(math.pi * p/q) for 0 <= p/q <= 1, as a rational: Bhaskara's    *)
(* approximation cos(pi x) ~ (1 - 4x^2)/(1 + x^2) on [0, 1/2], mirrored on *)
(* [1/2, 1].  It is exact where the double-precision cosine is exact       *)
(* (cos 0 = 1, cos pi = -1) and at 1/2, and strictly between on the rest.  *)
(***************************************************************************)
CosPi(p, q) ==
    IF 2 * p <= q
    THEN Rat(q * q - 4 * p * p, q * q + p * p)
    ELSE Rat(-(q * q - 4 * (q - p) * (q - p)), q * q + (q - p) * (q - p))

(***************************************************************************)
(* get_lr, lines 253-264.  The result is the rate, or the exception the    *)
(* call raises.                                                            *)
(***************************************************************************)
LrOk(r) == [err |-> "none", rate |-> r]

LrErr(e) == [err |-> e, rate |-> Rat(0, 1)]

(* line 256 *)
Warmup_PlusOne(it, cfg) == Rat(learning_rate * (it + 1), cfg.warmup_iters + 1)

Warmup(it, cfg) == Rat(learning_rate * it, cfg.warmup_iters)

get_lr(it, cfg) ==
    IF it < cfg.warmup_iters
    THEN LrOk(Warmup(it, cfg))
    ELSE IF it > cfg.lr_decay_iters
    THEN LrOk(Rat(min_lr, 1))
    ELSE IF cfg.lr_decay_iters - cfg.warmup_iters = 0
    THEN LrErr("ZeroDivisionError")
    ELSE LET p == it - cfg.warmup_iters
             q == cfg.lr_decay_iters - cfg.warmup_iters
             cs == CosPi(p, q)
         IN  IF ~(0 <= p /\ p <= q)
             THEN LrErr("AssertionError")
             ELSE \* min_lr + 0.5 * (1 + cos) * (learning_rate - min_lr)
                  LrOk(Rat(min_lr * 2 * cs.den + (cs.den + cs.num) * (learning_rate - min_lr),
                           2 * cs.den))

(* line 296: lr = get_lr(iter_num) if decay_lr else learning_rate *)
ScheduledLr(it, cfg) ==
    IF cfg.decay_lr THEN get_lr(it, cfg) ELSE LrOk(Rat(learning_rate, 1))

(* line 261-262: the progress of the middle branch, when it executes *)
MiddleBranch(it, cfg) == ~(it < cfg.warmup_iters) /\ ~(it > cfg.lr_decay_iters)

(***************************************************************************)
(* line 98: assert not (adam and hyperadam)                                *)
(***************************************************************************)
FlagsOk_Either(cfg) == TRUE

FlagsOk(cfg) == ~(cfg.adam /\ cfg.hyperadam)

(***************************************************************************)
(* Gradient masking, lines 345-352.                                        *)
(***************************************************************************)
MaskGrad_KeepAlpha(cfg, g) ==
    IF cfg.adam THEN ZeroGrads
    ELSE IF cfg.hyperadam
    THEN [n \in HyperNames |-> IF n # "beta1" /\ n # "beta2" /\ n # "alpha" THEN 0 ELSE g[n]]
    ELSE g

MaskGrad(cfg, g) ==
    LET g1 == [g EXCEPT !["alpha"] = 0]
    IN  IF cfg.adam THEN [n \in HyperNames |-> 0]
        ELSE IF cfg.hyperadam
        THEN [n \in HyperNames |-> IF n # "beta1" /\ n # "beta2" THEN 0 ELSE g1[n]]
        ELSE g1

(***************************************************************************)
(* torch.nn.utils.clip_grad_norm_(v, 10.0) on one scalar, line 359: the    *)
(* gradient is scaled by min(1, 10 / (|g| + 1e-6)); on integers, gradients *)
(* within the norm are unchanged and larger ones are brought to the norm.  *)
(***************************************************************************)
ClipScalar(g) ==
    IF g > hyper_clip_norm THEN hyper_clip_norm
    ELSE IF g < -hyper_clip_norm THEN -hyper_clip_norm
    ELSE g

ClipEnabled(cfg) == cfg.grad_clip # 0

(***************************************************************************)
(* Evaluation and checkpoint decisions, lines 304, 315, 317.               *)
(***************************************************************************)
EvalDue(it, cfg, master) == it % cfg.eval_interval = 0 /\ master

ShouldSave_Le(val, best, cfg) == val <= best \/ cfg.always_save_checkpoint

ShouldSave(val, best, cfg) == val < best \/ cfg.always_save_checkpoint

LogDue(it, cfg, master) == it % cfg.log_interval = 0 /\ master

(* line 392: iter_num > max_iters or math.isnan(losses['train']); the     *)
(* second operand is evaluated only when the first is false, and raises    *)
(* NameError when `losses` was never assigned.                             *)
TermNeedsLosses(it, cfg) == ~(it > cfg.max_iters)

Terminate(it, cfg, ls) == it > cfg.max_iters \/ ls.train = "nan"

(***************************************************************************)
(* Model arguments, lines 165-166, 173, 184-185, 208-210.                  *)
(***************************************************************************)
ArchFields == {"n_layer", "n_head", "n_embd", "block_size", "bias", "vocab_size"}

RequestedArgs(cfg) ==
    [n_layer |-> cfg.n_layer, n_head |-> cfg.n_head, n_embd |-> cfg.n_embd,
     block_size |-> cfg.block_size, bias |-> cfg.bias, vocab_size |-> 0,
     dropout |-> cfg.dropout]

ScratchArgs(cfg) == [RequestedArgs(cfg) EXCEPT !.vocab_size = gpt2_vocab_size]

ResumeArgs_KeepRequested(cfg, ck) ==
    [RequestedArgs(cfg) EXCEPT !.vocab_size = ck.vocab_size]

ResumeArgs(cfg, ck) ==
    [n \in DOMAIN RequestedArgs(cfg) |->
        IF n \in ArchFields THEN ck[n] ELSE RequestedArgs(cfg)[n]]

(* lines 208-210: crop the block size down to the requested one *)
CropArgs(cfg, args) ==
    IF cfg.block_size < args.block_size
    THEN [args EXCEPT !.block_size = cfg.block_size]
    ELSE args

(***************************************************************************)
(* The configurations tried.  Defaults are those of lines 45-91, with the  *)
(* intervals and the iteration budget scaled down to the bounds.  Each     *)
(* family varies one group of options over all its combinations and leaves *)
(* the others at their defaults.                                           *)
(***************************************************************************)
Defaults ==
    [adam |-> FALSE, hyperadam |-> FALSE, RANK |-> -1,
     gradient_accumulation_steps |-> 1, init_from |-> "scratch",
     always_save_checkpoint |-> TRUE, eval_only |-> FALSE, grad_clip |-> 1,
     eval_interval |-> MaxInterval, log_interval |-> 1, max_iters |-> 1,
     hypergrad |-> TRUE, decay_lr |-> TRUE, warmup_iters |-> 1,
     lr_decay_iters |-> 2, n_layer |-> n_layer, n_head |-> n_head,
     n_embd |-> n_embd, block_size |-> block_size, bias |-> FALSE,
     dropout |-> dropout]

NoFile ==
    [exists |-> FALSE, model_args |-> ScratchArgs(Defaults), iter_num |-> 0,
     best_val_loss |-> 0, optimizer |-> 0]

(* a checkpoint an earlier run of this script left behind, lines 318-327 *)
Checkpoint(args, it, best, opt) ==
    [exists |-> TRUE, model_args |-> args, iter_num |-> it,
     best_val_loss |-> best, optimizer |-> opt]

MatchingArgs == ScratchArgs(Defaults)

(* checkpoints of runs whose architecture differs in one field, and whose  *)
(* dropout differs as well                                                 *)
OtherArgs ==
    LET a == [MatchingArgs EXCEPT !.dropout = dropout + 1]
    IN  { a,
          [a EXCEPT !.n_layer = n_layer + 1],
          [a EXCEPT !.n_head = n_head + 1],
          [a EXCEPT !.n_embd = n_embd + 1],
          [a EXCEPT !.block_size = block_size + 1],
          [a EXCEPT !.block_size = block_size - 1],
          [a EXCEPT !.bias = TRUE],
          [a EXCEPT !.vocab_size = gpt2_vocab_size + 1] }

Scenario(cfg, ck) == [config |-> cfg, ckpt |-> ck]

ModeScenarios ==
    { Scenario([Defaults EXCEPT !.adam = a, !.hyperadam = h, !.grad_clip = g,
                                !.hypergrad = hg], NoFile) :
        a \in BOOLEAN, h \in BOOLEAN, g \in {0, 1}, hg \in BOOLEAN }

LoopScenarios ==
    { Scenario([Defaults EXCEPT !.always_save_checkpoint = s, !.eval_interval = e,
                                !.log_interval = l, !.max_iters = m,
                                !.eval_only = eo, !.decay_lr = d], NoFile) :
        s \in BOOLEAN, e \in 1..MaxInterval, l \in 1..MaxInterval,
        m \in 0..MaxIters, eo \in BOOLEAN, d \in BOOLEAN }

DdpScenarios ==
    { Scenario([Defaults EXCEPT !.RANK = r, !.gradient_accumulation_steps = ga,
                                !.eval_interval = e, !.max_iters = m], NoFile) :
        r \in {0, 1}, ga \in 1..ddp_world_size, e \in 1..MaxInterval,
        m \in 0..MaxIters }

ResumeScenarios ==
    { Scenario([Defaults EXCEPT !.init_from = "resume", !.RANK = r,
                                !.gradient_accumulation_steps = IF r = -1 THEN 1 ELSE ddp_world_size,
                                !.always_save_checkpoint = s,
                                !.eval_interval = e, !.log_interval = l, !.max_iters = m],
               Checkpoint(MatchingArgs, it, v, 0)) :
        r \in {-1, 1}, s \in BOOLEAN, e \in 1..MaxInterval, l \in 1..MaxInterval,
        m \in 0..MaxIters, it \in 1..MaxResumeIter, v \in ValLosses }

MismatchScenarios ==
    { Scenario([Defaults EXCEPT !.init_from = "resume", !.eval_only = eo],
               Checkpoint(a, MaxInterval, 1, 0)) : eo \in BOOLEAN, a \in OtherArgs }
    \cup { Scenario([Defaults EXCEPT !.init_from = "resume"], NoFile) }

Scenarios ==
    ModeScenarios \cup LoopScenarios \cup DdpScenarios \cup ResumeScenarios
        \cup MismatchScenarios

(***************************************************************************)
(* Gradients the backward pass may leave on the hyperparameters: none,     *)
(* within and beyond the clipping norm, of both signs, equal and distinct. *)
(***************************************************************************)
BackwardGrads ==
    { [n \in HyperNames |-> g] : g \in {-MaxGrad, 0, 3} }
    \cup { [beta1 |-> 1, beta2 |-> -2, beta3 |-> MaxGrad, rho |-> -4, c |-> 5,
            gamma |-> -MaxGrad, alpha |-> 7] }

NoHist ==
    [ops |-> <<>>, produced |-> ZeroGrads, masked |-> ZeroGrads, x_from |-> -1,
     fwd_x |-> 0, fwd_x_from |-> -1, nonfinite |-> FALSE,
     after_nonfinite |-> FALSE, min_val |-> init_best_val_loss,
     final_evals |-> 0, ck_args |-> MatchingArgs]

Init ==
    \E s \in Scenarios :
        /\ config = s.config
        /\ ckpt_file = s.ckpt
        /\ pc = "config"
        /\ error = "none"
        /\ master_process = FALSE
        /\ model_built = FALSE
        /\ model_args = RequestedArgs(s.config)
        /\ iter_num = 0
        /\ local_iter_num = 0
        /\ best_val_loss = init_best_val_loss
        /\ X = 0
        /\ get_batch_calls = 0
        /\ lr = Rat(0, 1)
        /\ optimizer_lr = Rat(learning_rate, 1)
        /\ alpha = Rat(100, 1)
        /\ hyper_grad = ZeroGrads
        /\ losses = NoLosses
        /\ lossf = FALSE
        /\ eval_count = 0
        /\ ckpt_writes = 0
        /\ results_writes = 0
        /\ optimizer_steps = 0
        /\ mw_steps = 0
        /\ hist = NoHist

Raise(e) == pc' = "failed" /\ error' = e

Goto(p) == pc' = p /\ error' = error

Did(op) == [hist EXCEPT !.ops = Append(@, op)]

Min(a, b) == IF a <= b THEN a ELSE b

diskVars == <<ckpt_file, ckpt_writes, results_writes>>
modelVars == <<model_built, model_args>>
iterVars == <<iter_num, local_iter_num>>
lrVars == <<lr, optimizer_lr, alpha>>
stepVars == <<optimizer_steps, mw_steps>>
evalVars == <<losses, lossf, eval_count, best_val_loss>>
batchVars == <<X, get_batch_calls>>

(***************************************************************************)
(* Startup, lines 94-291.                                                  *)
(***************************************************************************)
(* line 98 *)
CheckConfig ==
    /\ pc = "config"
    /\ IF FlagsOk(config) THEN Goto("ddp_setup") ELSE Raise("AssertionError")
    /\ UNCHANGED <<config, master_process, diskVars, modelVars, iterVars, lrVars,
                   stepVars, evalVars, batchVars, hyper_grad, hist>>

(* lines 100-123 *)
DdpSetup ==
    /\ pc = "ddp_setup"
    /\ IF config.RANK # -1
       THEN /\ master_process' = (config.RANK = 0)
            /\ IF config.gradient_accumulation_steps % ddp_world_size = 0
               THEN /\ config' = [config EXCEPT !.gradient_accumulation_steps =
                                                    @ \div ddp_world_size]
                    /\ Goto("init_model")
               ELSE /\ Raise("AssertionError")
                    /\ UNCHANGED config
       ELSE /\ master_process' = TRUE
            /\ Goto("init_model")
            /\ UNCHANGED config
    /\ UNCHANGED <<diskVars, modelVars, iterVars, lrVars, stepVars, evalVars,
                   batchVars, hyper_grad, hist>>

(* lines 152-224 *)
InitModel ==
    /\ pc = "init_model"
    /\ IF config.init_from = "scratch"
       THEN /\ model_args' = CropArgs(config, ScratchArgs(config))
            /\ model_built' = TRUE
            /\ iter_num' = 0
            /\ best_val_loss' = init_best_val_loss
            /\ Goto("first_batch")
            /\ UNCHANGED <<optimizer_steps, hist>>
       ELSE IF ~ckpt_file.exists
            THEN /\ Raise("FileNotFoundError")
                 /\ UNCHANGED <<model_args, model_built, iter_num, best_val_loss,
                                optimizer_steps, hist>>
            ELSE /\ model_args' = CropArgs(config, ResumeArgs(config, ckpt_file.model_args))
                 /\ model_built' = TRUE
                 /\ iter_num' = ckpt_file.iter_num
                 /\ best_val_loss' = ckpt_file.best_val_loss
                 /\ optimizer_steps' = ckpt_file.optimizer
                 /\ hist' = [hist EXCEPT !.min_val = ckpt_file.best_val_loss,
                                         !.ck_args = ckpt_file.model_args]
                 /\ Goto("first_batch")
    /\ UNCHANGED <<config, master_process, diskVars, local_iter_num, lrVars, mw_steps,
                   losses, lossf, eval_count, batchVars, hyper_grad>>

(* lines 272-291 *)
FirstBatch ==
    /\ pc = "first_batch"
    /\ X' = get_batch_calls + 1
    /\ get_batch_calls' = get_batch_calls + 1
    /\ local_iter_num' = 0
    /\ hist' = [hist EXCEPT !.x_from = -1]
    /\ Goto("bind_lr")
    /\ UNCHANGED <<config, master_process, diskVars, modelVars, iter_num, lrVars,
                   stepVars, evalVars, hyper_grad>>

(***************************************************************************)
(* The training loop, lines 293-414.                                       *)
(***************************************************************************)
(* lines 296-300 *)
BindLr ==
    /\ pc = "bind_lr"
    /\ LET r == ScheduledLr(iter_num, config)
       IN  IF r.err # "none"
           THEN /\ Raise(r.err)
                /\ UNCHANGED <<lrVars, hist>>
           ELSE /\ lr' = r.rate
                /\ optimizer_lr' = r.rate
                /\ alpha' = r.rate
                /\ hist' = [hist EXCEPT !.ops = <<"bind_lr">>,
                                        !.after_nonfinite = hist.nonfinite]
                /\ Goto("evaluate")
    /\ UNCHANGED <<config, master_process, diskVars, modelVars, iterVars, stepVars,
                   evalVars, batchVars, hyper_grad>>

(* lines 304-329 *)
Evaluate ==
    /\ pc = "evaluate"
    /\ IF EvalDue(iter_num, config, master_process)
       THEN \E t \in TrainLosses, v \in ValLosses :
              LET save == ShouldSave(v, best_val_loss, config)
                  best == IF save THEN v ELSE best_val_loss
              IN  /\ losses' = [bound |-> TRUE, train |-> t, val |-> v]
                  /\ eval_count' = eval_count + 1
                  /\ get_batch_calls' = get_batch_calls + 2 * eval_iters
                  /\ best_val_loss' = best
                  /\ IF save /\ iter_num > 0
                     THEN /\ ckpt_file' = Checkpoint(model_args, iter_num, best,
                                                     optimizer_steps)
                          /\ ckpt_writes' = ckpt_writes + 1
                     ELSE UNCHANGED <<ckpt_file, ckpt_writes>>
                  /\ hist' = [hist EXCEPT !.nonfinite = @ \/ t # "finite",
                                          !.min_val = Min(@, v)]
       ELSE UNCHANGED <<losses, eval_count, get_batch_calls, best_val_loss,
                        ckpt_file, ckpt_writes, hist>>
    /\ Goto("eval_only")
    /\ UNCHANGED <<config, master_process, results_writes, modelVars, iterVars,
                   lrVars, stepVars, lossf, X, hyper_grad>>

(* lines 331-332 *)
EvalOnly ==
    /\ pc = "eval_only"
    /\ IF iter_num = 0 /\ config.eval_only THEN Goto("teardown") ELSE Goto("begin")
    /\ UNCHANGED <<config, master_process, diskVars, modelVars, iterVars, lrVars,
                   stepVars, evalVars, batchVars, hyper_grad, hist>>

(* line 335 *)
Begin ==
    /\ pc = "begin"
    /\ hist' = Did("begin")
    /\ Goto("zero_grad")
    /\ UNCHANGED <<config, master_process, diskVars, modelVars, iterVars, lrVars,
                   stepVars, evalVars, batchVars, hyper_grad>>

(* line 336 *)
ZeroGrad ==
    /\ pc = "zero_grad"
    /\ hyper_grad' = ZeroGrads
    /\ hist' = Did("zero_grad")
    /\ Goto("forward")
    /\ UNCHANGED <<config, master_process, diskVars, modelVars, iterVars, lrVars,
                   stepVars, evalVars, batchVars>>

(* lines 339-340: the forward pass reads the batch the previous iteration left *)
Forward_FetchFirst ==
    /\ pc = "forward"
    /\ X' = get_batch_calls + 1
    /\ get_batch_calls' = get_batch_calls + 1
    /\ hist' = [Did("forward") EXCEPT !.fwd_x = X', !.fwd_x_from = local_iter_num,
                                      !.x_from = local_iter_num]
    /\ Goto("backward")
    /\ UNCHANGED <<config, master_process, diskVars, modelVars, iterVars, lrVars,
                   stepVars, evalVars, hyper_grad>>

Forward ==
    /\ pc = "forward"
    /\ hist' = [Did("forward") EXCEPT !.fwd_x = X, !.fwd_x_from = hist.x_from]
    /\ Goto("backward")
    /\ UNCHANGED <<config, master_process, diskVars, modelVars, iterVars, lrVars,
                   stepVars, evalVars, batchVars, hyper_grad>>

(* line 344: the gradients are accumulated onto the zeroed slots *)
Backward ==
    /\ pc = "backward"
    /\ \E g \in BackwardGrads :
          /\ hyper_grad' = [n \in HyperNames |-> hyper_grad[n] + g[n]]
          /\ hist' = [Did("backward") EXCEPT !.produced = hyper_grad']
    /\ Goto("mask")
    /\ UNCHANGED <<config, master_process, diskVars, modelVars, iterVars, lrVars,
                   stepVars, evalVars, batchVars>>

(* lines 345-352 *)
MaskGrads ==
    /\ pc = "mask"
    /\ hyper_grad' = MaskGrad(config, hyper_grad)
    /\ hist' = [Did("mask") EXCEPT !.masked = hyper_grad']
    /\ Goto("next_batch")
    /\ UNCHANGED <<config, master_process, diskVars, modelVars, iterVars, lrVars,
                   stepVars, evalVars, batchVars>>

(* line 353 *)
NextBatch ==
    /\ pc = "next_batch"
    /\ X' = get_batch_calls + 1
    /\ get_batch_calls' = get_batch_calls + 1
    /\ hist' = [Did("get_batch") EXCEPT !.x_from = local_iter_num]
    /\ Goto("clip")
    /\ UNCHANGED <<config, master_process, diskVars, modelVars, iterVars, lrVars,
                   stepVars, evalVars, hyper_grad>>

(* lines 356-359 *)
ClipGrads ==
    /\ pc = "clip"
    /\ IF ClipEnabled(config)
       THEN /\ hyper_grad' = [n \in HyperNames |-> ClipScalar(hyper_grad[n])]
            /\ hist' = Did("clip")
       ELSE UNCHANGED <<hyper_grad, hist>>
    /\ Goto("weight_decay")
    /\ UNCHANGED <<config, master_process, diskVars, modelVars, iterVars, lrVars,
                   stepVars, evalVars, batchVars>>

(* lines 363-365 *)
WeightDecay ==
    /\ pc = "weight_decay"
    /\ hist' = Did("weight_decay")
    /\ Goto("step")
    /\ UNCHANGED <<config, master_process, diskVars, modelVars, iterVars, lrVars,
                   stepVars, evalVars, batchVars, hyper_grad>>

(* line 366: mw.step() is the only step call of the loop *)
Step_AlsoOptimizer ==
    /\ pc = "step"
    /\ mw_steps' = mw_steps + 1
    /\ optimizer_steps' = optimizer_steps + 1
    /\ hist' = Did("step")
    /\ Goto("zero_grad2")
    /\ UNCHANGED <<config, master_process, diskVars, modelVars, iterVars, lrVars,
                   evalVars, batchVars, hyper_grad>>

Step ==
    /\ pc = "step"
    /\ mw_steps' = mw_steps + 1
    /\ hist' = Did("step")
    /\ Goto("zero_grad2")
    /\ UNCHANGED <<config, master_process, diskVars, modelVars, iterVars, lrVars,
                   optimizer_steps, evalVars, batchVars, hyper_grad>>

(* line 367 *)
ZeroGrad2 ==
    /\ pc = "zero_grad2"
    /\ hyper_grad' = ZeroGrads
    /\ hist' = [Did("zero_grad") EXCEPT !.produced = ZeroGrads, !.masked = ZeroGrads]
    /\ Goto("log")
    /\ UNCHANGED <<config, master_process, diskVars, modelVars, iterVars, lrVars,
                   stepVars, evalVars, batchVars>>

(* lines 370-385: line 384 reads `losses` *)
Log ==
    /\ pc = "log"
    /\ IF LogDue(iter_num, config, master_process)
       THEN /\ lossf' = TRUE
            /\ IF losses.bound THEN Goto("advance") ELSE Raise("NameError")
       ELSE /\ Goto("advance")
            /\ UNCHANGED lossf
    /\ UNCHANGED <<config, master_process, diskVars, modelVars, iterVars, lrVars,
                   stepVars, losses, eval_count, best_val_loss, batchVars,
                   hyper_grad, hist>>

(* lines 387-392 *)
Advance ==
    /\ pc = "advance"
    /\ iter_num' = iter_num + 1
    /\ local_iter_num' = local_iter_num + 1
    /\ IF TermNeedsLosses(iter_num', config) /\ ~losses.bound
       THEN Raise("NameError")
       ELSE IF Terminate(iter_num', config, losses)
            THEN Goto("final")
            ELSE Goto("bind_lr")
    /\ UNCHANGED <<config, master_process, diskVars, modelVars, lrVars, stepVars,
                   evalVars, batchVars, hyper_grad, hist>>

(* lines 393-414: line 398 reads `lossf` *)
Finalize ==
    /\ pc = "final"
    /\ \E t \in TrainLosses, v \in ValLosses :
          /\ losses' = [bound |-> TRUE, train |-> t, val |-> v]
          /\ hist' = [hist EXCEPT !.nonfinite = @ \/ t # "finite",
                                  !.final_evals = @ + 1]
    /\ eval_count' = eval_count + 1
    /\ get_batch_calls' = get_batch_calls + 2 * eval_iters
    /\ IF ~lossf
       THEN /\ Raise("NameError")
            /\ UNCHANGED results_writes
       ELSE /\ results_writes' = results_writes + (IF config.hypergrad THEN 1 ELSE 0)
            /\ Goto("teardown")
    /\ UNCHANGED <<config, master_process, ckpt_file, ckpt_writes, modelVars,
                   iterVars, lrVars, stepVars, lossf, best_val_loss, X, hyper_grad>>

(* lines 416-417 *)
Teardown ==
    /\ pc = "teardown"
    /\ Goto("done")
    /\ UNCHANGED <<config, master_process, diskVars, modelVars, iterVars, lrVars,
                   stepVars, evalVars, batchVars, hyper_grad, hist>>

Next ==
    \/ CheckConfig \/ DdpSetup \/ InitModel \/ FirstBatch
    \/ BindLr \/ Evaluate \/ EvalOnly
    \/ Begin \/ ZeroGrad \/ Forward \/ Backward \/ MaskGrads \/ NextBatch
    \/ ClipGrads \/ WeightDecay \/ Step \/ ZeroGrad2
    \/ Log \/ Advance \/ Finalize \/ Teardown

Spec == Init /\ [][Next]_vars

(***************************************************************************)
(* Positions of the loop body.                                             *)
(***************************************************************************)
MaskedToStep == {"next_batch", "clip", "weight_decay", "step"}

AfterForward ==
    {"backward", "mask", "next_batch", "clip", "weight_decay", "step",
     "zero_grad2", "log", "advance"}

BeforeStep ==
    {"bind_lr", "evaluate", "eval_only", "begin", "zero_grad", "forward",
     "backward", "mask", "next_batch", "clip", "weight_decay", "step"}

AfterStep == {"zero_grad2", "log", "advance"}

MomentDecay == {"beta1", "beta2"}

(* the operations of one iteration, lines 296-367, in program order *)
ExpectedOps(cfg) ==
    <<"bind_lr", "begin", "zero_grad", "forward", "backward", "mask", "get_batch">>
    \o (IF cfg.grad_clip # 0 THEN <<"clip">> ELSE <<>>)
    \o <<"weight_decay", "step", "zero_grad">>

IsPrefix(s, t) == Len(s) <= Len(t) /\ SubSeq(t, 1, Len(s)) = s

(* some architecture field of the checkpoint is not what the requested     *)
(* configuration would build                                               *)
Mismatch(cfg, ck) == \E k \in ArchFields : ck[k] # ScratchArgs(cfg)[k]

(***************************************************************************)
(* C1.  Between the masking code and the meta-optimizer step, alpha's      *)
(* gradient is zero in every mode; with adam every hyperparameter's        *)
(* gradient is zero; with hyperadam every gradient but beta1's and beta2's *)
(* is zero and masking left those two as the backward pass produced them;  *)
(* with neither flag masking changed no gradient but alpha's.              *)
(***************************************************************************)
C1_MaskedGradients ==
    pc \in MaskedToStep =>
        /\ hyper_grad["alpha"] = 0
        /\ config.adam => \A n \in HyperNames : hyper_grad[n] = 0
        /\ config.hyperadam =>
              /\ \A n \in HyperNames \ MomentDecay : hyper_grad[n] = 0
              /\ \A n \in MomentDecay : hist.masked[n] = hist.produced[n]
        /\ (~config.adam /\ ~config.hyperadam) =>
              \A n \in HyperNames \ {"alpha"} : hist.masked[n] = hist.produced[n]

C1_Witness ==
    /\ pc = "step"
    /\ config.hyperadam
    /\ hist.produced["alpha"] # 0
    /\ hist.produced["rho"] # 0
    /\ hyper_grad["beta1"] # 0
    /\ hyper_grad["rho"] = 0

(***************************************************************************)
(* C2.  With adam and hyperadam both set the process fails at line 98:     *)
(* get_batch is never called, no model is built, no iteration starts.      *)
(***************************************************************************)
C2_FailFast ==
    (config.adam /\ config.hyperadam) =>
        /\ pc \in {"config", "failed"}
        /\ get_batch_calls = 0
        /\ ~model_built
        /\ hist.ops = <<>>
        /\ mw_steps = 0
        /\ eval_count = 0

C2_Witness ==
    /\ config.adam /\ config.hyperadam
    /\ pc = "failed"
    /\ error = "AssertionError"

(***************************************************************************)
(* C3.  What an iteration has done so far is always an initial part of the *)
(* fixed sequence; an iteration that reaches the logging code has done all *)
(* of it, each operation once; and the batch a forward pass used was       *)
(* fetched by the previous iteration (by line 272 for the first).          *)
(***************************************************************************)
C3_IterationOrder ==
    /\ IsPrefix(hist.ops, ExpectedOps(config))
    /\ pc \in {"log", "advance"} => hist.ops = ExpectedOps(config)
    /\ pc \in AfterForward =>
          /\ hist.fwd_x_from = local_iter_num - 1
          /\ pc \in {"backward", "mask", "next_batch"} => hist.fwd_x = X

C3_Witness ==
    /\ pc = "log"
    /\ local_iter_num = 1
    /\ config.grad_clip # 0
    /\ hist.ops = ExpectedOps(config)
    /\ hist.fwd_x_from = 0

(***************************************************************************)
(* C4.  As claimed: each iteration that reaches the step phase steps both  *)
(* the optimizer made by configure_optimizers and the meta-optimizer once. *)
(***************************************************************************)
C4_BothStepOnce ==
    [][pc = "step" => /\ optimizer_steps' = optimizer_steps + 1
                      /\ mw_steps' = mw_steps + 1]_vars

(***************************************************************************)
(* C4, amended.  Each iteration that reaches the step phase calls          *)
(* mw.step() once and nothing else: the optimizer made by                  *)
(* configure_optimizers receives the scheduled rate and its state is what  *)
(* the checkpoint stores, but it is never stepped.                         *)
(***************************************************************************)
C4_OnlyMetaWrapperSteps ==
    /\ optimizer_steps = 0
    /\ pc \in BeforeStep \cup {"final"} => mw_steps = local_iter_num
    /\ pc \in AfterStep => mw_steps = local_iter_num + 1
    /\ pc \in (BeforeStep \cup AfterStep) \ {"bind_lr"} =>
          optimizer_lr = lr /\ alpha = lr
    /\ ckpt_file.exists => ckpt_file.optimizer = optimizer_steps

C4_Witness ==
    /\ pc = "zero_grad2"
    /\ local_iter_num = 1
    /\ mw_steps = 2
    /\ optimizer_steps = 0
    /\ ckpt_writes = 1

(***************************************************************************)
(* C5.  A process that is not the leader never runs estimate_loss, never   *)
(* writes a checkpoint or a results file, and never stops on a name only   *)
(* the leader binds.                                                       *)
(***************************************************************************)
C5_LeaderOnly ==
    config.RANK > 0 =>
        /\ eval_count = 0
        /\ ckpt_writes = 0
        /\ results_writes = 0
        /\ error # "NameError"

(***************************************************************************)
(* C6.  Once an evaluation has reported a training loss that is NaN or     *)
(* infinite no further iteration starts, the process does not stop on an   *)
(* exception, and it ends after one final evaluation and one summary       *)
(* write.                                                                  *)
(***************************************************************************)
C6_NonFiniteStops ==
    /\ ~hist.after_nonfinite
    /\ hist.nonfinite => error = "none"
    /\ (hist.nonfinite /\ pc = "done" /\ ~(config.eval_only /\ local_iter_num = 0)) =>
          hist.final_evals = 1 /\ results_writes = 1

(***************************************************************************)
(* C7.  Whenever the checkpoint file is written, the iteration counter is  *)
(* a multiple of eval_interval, the process is the leader, the validation  *)
(* loss just measured is below best_val_loss as it stood or                *)
(* always_save_checkpoint is set, and the file then holds exactly the new  *)
(* record, with the current iter_num and the updated best_val_loss.        *)
(***************************************************************************)
C7_CheckpointWrite ==
    [][(ckpt_writes' # ckpt_writes \/ ckpt_file' # ckpt_file) =>
          /\ iter_num % config.eval_interval = 0
          /\ master_process
          /\ losses'.val < best_val_loss \/ config.always_save_checkpoint
          /\ ckpt_writes' = ckpt_writes + 1
          /\ iter_num' = iter_num
          /\ ckpt_file' = Checkpoint(model_args, iter_num, best_val_loss',
                                     optimizer_steps)
          /\ best_val_loss' = losses'.val]_vars

C7_Witness ==
    /\ config.init_from = "resume"
    /\ ~config.always_save_checkpoint
    /\ ckpt_writes = 1
    /\ ckpt_file.iter_num = MaxResumeIter
    /\ ckpt_file.best_val_loss = best_val_loss
    /\ best_val_loss < MaxValLoss
    /\ pc = "eval_only"

(***************************************************************************)
(* C8.  As claimed: a resume from a checkpoint one of whose six            *)
(* architecture fields differs from the requested configuration executes   *)
(* no training step.                                                       *)
(***************************************************************************)
C8_MismatchIsFatal ==
    (config.init_from = "resume" /\ model_built /\ Mismatch(config, hist.ck_args)) =>
        mw_steps = 0

(***************************************************************************)
(* C8, amended.  On resume nothing is compared: the model takes the six    *)
(* architecture fields from the checkpoint (the block size then cropped to *)
(* the requested one when that is smaller), dropout takes the requested    *)
(* value, and the script goes on into the training loop; the resume        *)
(* itself fails only when the checkpoint file is missing.                  *)
(***************************************************************************)
C8_ResumeTakesCheckpointArch ==
    config.init_from = "resume" =>
        /\ model_built =>
              /\ \A k \in ArchFields \ {"block_size"} : model_args[k] = hist.ck_args[k]
              /\ model_args.block_size = Min(config.block_size, hist.ck_args.block_size)
              /\ model_args.dropout = config.dropout
        /\ (pc = "failed" /\ ckpt_file.exists) =>
              model_built \/ error = "AssertionError"
        /\ (pc # "failed" /\ pc \notin {"config", "ddp_setup", "init_model"}) =>
              model_built

C8_Witness ==
    /\ config.init_from = "resume"
    /\ Mismatch(config, hist.ck_args)
    /\ hist.ck_args.n_layer # config.n_layer
    /\ hist.ck_args.dropout # config.dropout
    /\ mw_steps = 1
    /\ pc = "done"

(***************************************************************************)
(* C10.  best_val_loss is the least of its initial (or restored) value and *)
(* the validation losses the periodic evaluations have measured.           *)
(***************************************************************************)
C10_BestIsMinimum == best_val_loss = hist.min_val

(***************************************************************************)
(* The schedule on its own: line 296 applied to every step of a range,     *)
(* under every pair of schedule bounds.                                    *)
(***************************************************************************)
SchedScenarios ==
    { [Defaults EXCEPT !.decay_lr = d, !.warmup_iters = w, !.lr_decay_iters = l] :
        d \in BOOLEAN, w \in 0..MaxSched, l \in 0..MaxSched }

InitLR ==
    \E cfg \in SchedScenarios, it \in 0..MaxStep :
        /\ config = cfg
        /\ ckpt_file = NoFile
        /\ pc = "bind_lr"
        /\ error = "none"
        /\ master_process = TRUE
        /\ model_built = TRUE
        /\ model_args = ScratchArgs(cfg)
        /\ iter_num = it
        /\ local_iter_num = 0
        /\ best_val_loss = init_best_val_loss
        /\ X = 1
        /\ get_batch_calls = 1
        /\ lr = Rat(0, 1)
        /\ optimizer_lr = Rat(learning_rate, 1)
        /\ alpha = Rat(100, 1)
        /\ hyper_grad = ZeroGrads
        /\ losses = NoLosses
        /\ lossf = FALSE
        /\ eval_count = 0
        /\ ckpt_writes = 0
        /\ results_writes = 0
        /\ optimizer_steps = 0
        /\ mw_steps = 0
        /\ hist = NoHist

NextLR == BindLr

SpecLR == InitLR /\ [][NextLR]_vars

(* what the claim says of the rate bound at step iter_num, decay enabled *)
ScheduleHolds ==
    LET w == config.warmup_iters
        l == config.lr_decay_iters
        it == iter_num
    IN  /\ pc = "evaluate"
        /\ error = "none"
        /\ optimizer_lr = lr
        /\ it < w => RatEq(lr, Rat(learning_rate * it, w))
        /\ it = w => RatEq(lr, Rat(learning_rate, 1))
        /\ it > l => RatEq(lr, Rat(min_lr, 1))
        /\ it = l /\ it >= w => RatEq(lr, Rat(min_lr, 1))
        /\ MiddleBranch(it, config) =>
              /\ l - w # 0
              /\ 0 <= (it - w) /\ (it - w) <= (l - w)

(***************************************************************************)
(* C9.  As claimed: with decay enabled and warmup_iters <= lr_decay_iters  *)
(* the rate is the linear ramp below warmup_iters, learning_rate at        *)
(* warmup_iters, min_lr at and above lr_decay_iters, and the progress of   *)
(* the middle branch is defined and within 0..1; with decay disabled the   *)
(* rate bound is learning_rate.                                            *)
(***************************************************************************)
C9_ScheduleLe ==
    pc # "bind_lr" =>
        /\ (config.decay_lr /\ config.warmup_iters <= config.lr_decay_iters) =>
              ScheduleHolds
        /\ ~config.decay_lr => pc = "evaluate" /\ RatEq(lr, Rat(learning_rate, 1))

(***************************************************************************)
(* C9, amended: the same for warmup_iters < lr_decay_iters; with the two   *)
(* equal the call at that step divides by zero.                            *)
(***************************************************************************)
C9_ScheduleLt ==
    pc # "bind_lr" =>
        /\ (config.decay_lr /\ config.warmup_iters < config.lr_decay_iters) =>
              ScheduleHolds
        /\ ~config.decay_lr => pc = "evaluate" /\ RatEq(lr, Rat(learning_rate, 1))
        /\ (config.decay_lr /\ config.warmup_iters = config.lr_decay_iters
              /\ iter_num = config.warmup_iters) =>
              pc = "failed" /\ error = "ZeroDivisionError"

C9_Witness ==
    /\ pc = "evaluate"
    /\ config.decay_lr
    /\ config.warmup_iters = 1
    /\ config.lr_decay_iters = MaxSched
    /\ iter_num = 2
    /\ ~RatLe(lr, Rat(min_lr, 1))
    /\ ~RatLe(Rat(learning_rate, 1), lr)

====
